---- MODULE Spec2Model ----
(***************************************************************************)
(* A model of the RAG chatbot pipeline: ConversationMemory                 *)
(* (utils/memory.py), VectorStore (utils/vector_store.py), Reranker        *)
(* (utils/reranker.py) and RAGChain (utils/rag_chain.py).                  *)
(*                                                                         *)
(* Each component has its own specification over the shared variables:     *)
(*   SpecMem     one caller using ConversationMemory                       *)
(*   SpecConc    several threads inside ConversationMemory.add_turn        *)
(*   SpecIndex   one caller using VectorStore                              *)
(*   SpecRerank  construction and use of a Reranker                        *)
(*   SpecChat    one request at a time through RAGChain.chat               *)
(* Variables a specification does not use keep their inert initial value.  *)
(***************************************************************************)
EXTENDS Integers, Sequences, FiniteSets, TLC

VARIABLES
    mem,        \* ConversationMemory: [sessions: dict sid -> deque ref, heap: ref -> deque contents]
    appended,   \* history variable: per session, the turns whose append took effect, in that order
    last,       \* history variable: the last completed operation, its arguments and its outcome
    wk,         \* per thread: position inside add_turn and its local variables
    calls,      \* number of operations started so far in the behaviour (bounded)
    collection, \* the Chroma collection: a sequence of stored entries in insertion order
    rr,         \* the Reranker object: construction status and _model
    ch,         \* per thread: position inside RAGChain.chat and its local variables
    llm         \* RAGChain configuration: llm_provider and _llm_client

vars == <<mem, appended, last, wk, calls, collection, rr, ch, llm>>

----------------------------------------------------------------------------
(* Bounds of the model *)

\* ConversationMemory(max_turns): the window is 2 * max_turns entries.
max_turns == 1
\* Total number of memory operations in one behaviour of SpecMem.
MaxOps == 5
\* Number of add_turn calls the threads of SpecConc start in one behaviour.
MaxCalls == 3

\* Largest number of chunks one ingested document is split into.
MaxChunks == 2
\* Total number of VectorStore operations in one behaviour of SpecIndex.
MaxIndexOps == 3

\* Largest number of hits handed to one rerank call of SpecRerank.
MaxDocs == 3

\* Number of chat requests in one behaviour of SpecChat.
MaxChats == 2

\* Longest text, in characters, given to _split_text in SpecSplit.
MaxTextLen == 7

\* Longest answer, in words, given to evaluate in SpecEval.
MaxAnswerWords == 3

SessionIds == {"s1", "s2"}
Roles      == {"user", "assistant"}
Contents   == {"x", "y"}
Threads    == {"t1", "t2"}

\* deque objects live on a heap; at most one per session plus one held per thread
Refs == 1 .. (Cardinality(SessionIds) + Cardinality(Threads))

NoOp == [op |-> "none"]

----------------------------------------------------------------------------
(* Generic helpers *)

Min(a, b) == IF a < b THEN a ELSE b
Max(a, b) == IF a > b THEN a ELSE b

\* the last n elements of s (all of s when n >= Len(s))
LastN(s, n) == IF n >= Len(s) THEN s ELSE SubSeq(s, Len(s) - n + 1, Len(s))

Range(s) == {s[i] : i \in DOMAIN s}

----------------------------------------------------------------------------
(* ConversationMemory, utils/memory.py *)

Turn(role, content) == [role |-> role, content |-> content]

EmptyMemory == [sessions |-> <<>>, heap |-> <<>>]

\* `session_id in self._sessions`
HasSession(m, sid) == sid \in DOMAIN m.sessions

\* the object identity a new deque gets: the lowest address not in use
FreshRef(m) ==
    CHOOSE r \in Refs : /\ r \notin DOMAIN m.heap
                        /\ \A q \in Refs : q \notin DOMAIN m.heap => r <= q

dequeMaxlenMut == max_turns
\* deque(maxlen=self.max_turns * 2)
dequeMaxlen == max_turns * 2

\* deque.append on a bounded deque: the oldest element is dropped when full
DequeAppend(q, x, maxlen) ==
    IF maxlen = 0 THEN <<>>
    ELSE IF Len(q) >= maxlen THEN Tail(q) \o <<x>>
    ELSE Append(q, x)

\* self._sessions[session_id] = deque(maxlen=...)
CreateSession(m, sid) ==
    LET r == FreshRef(m) IN
    [sessions |-> [s \in DOMAIN m.sessions \cup {sid} |->
                      IF s = sid THEN r ELSE m.sessions[s]],
     heap     |-> [x \in DOMAIN m.heap \cup {r} |->
                      IF x = r THEN <<>> ELSE m.heap[x]]]

\* <deque object r>.append(turn)
AppendRef(m, r, t) ==
    [m EXCEPT !.heap = [x \in DOMAIN m.heap |->
                           IF x = r THEN DequeAppend(m.heap[x], t, dequeMaxlen)
                           ELSE m.heap[x]]]

\* unreachable deques are reclaimed: keep those a session or a thread refers to
Collect(m, held) ==
    [m EXCEPT !.heap = [x \in {r \in DOMAIN m.heap :
                                  \/ r \in held
                                  \/ \E s \in DOMAIN m.sessions : m.sessions[s] = r}
                          |-> m.heap[x]]]

\* add_turn run by one thread without interruption
add_turn(m, sid, role, content) ==
    LET m1 == IF ~HasSession(m, sid) THEN CreateSession(m, sid) ELSE m
    IN  AppendRef(m1, m1.sessions[sid], Turn(role, content))

\* list(self._sessions.get(session_id, []))
get_history(m, sid) ==
    IF HasSession(m, sid) THEN m.heap[m.sessions[sid]] ELSE <<>>

\* self._sessions.pop(session_id, None): the result and whether it raises
clearMut(m, sid) ==
    [mem    |-> IF HasSession(m, sid)
                THEN [m EXCEPT !.heap[m.sessions[sid]] = <<>>]
                ELSE m,
     raised |-> FALSE]
clear(m, sid) ==
    [mem    |-> Collect([m EXCEPT !.sessions =
                   [s \in DOMAIN m.sessions \ {sid} |-> m.sessions[s]]], {}),
     raised |-> FALSE]

session_count(m) == Cardinality(DOMAIN m.sessions)

----------------------------------------------------------------------------
(* VectorStore, utils/vector_store.py.  Strings that are built by formatting *)
(* are sequences of tokens, so that two formatted ids are equal exactly when *)
(* their texts are.                                                          *)

\* secure_filename results; the second has the text of an id of the first
Sources == {<<"a">>, <<"a", "_chunk_", "0">>}
Versions == {"v1", "v2"}

Digits == <<"0", "1", "2", "3", "4", "5", "6", "7", "8", "9">>
\* str(i) for a chunk index
Str(i) == Digits[i + 1]

\* DocumentChunk list produced by _split_text for one file: chunk_idx is len(chunks)
\* at the time of each append, the source is the file's basename
ChunkList(source, n, ver) ==
    [i \in 1 .. n |-> [text     |-> <<ver, Str(i - 1)>>,
                       metadata |-> [source |-> source, chunk_idx |-> i - 1]]]

\* f"{source}_chunk_{c.metadata['chunk_idx']}"
MakeId(source, c) == source \o <<"_chunk_", Str(c.metadata.chunk_idx)>>

\* collection.upsert of one id: replace the entry that has the id, else add one
UpsertOne(coll, id, doc, meta) ==
    LET e == [id |-> id, document |-> doc, metadata |-> meta] IN
    IF \E i \in DOMAIN coll : coll[i].id = id
    THEN [i \in DOMAIN coll |-> IF coll[i].id = id THEN e ELSE coll[i]]
    ELSE Append(coll, e)

RECURSIVE UpsertAll(_, _, _)
\* collection.upsert(ids=..., documents=..., metadatas=...), chunk k onwards
UpsertAll(coll, chunks, source) ==
    IF chunks = <<>> THEN coll
    ELSE UpsertAll(UpsertOne(coll, MakeId(source, Head(chunks)),
                             Head(chunks).text, Head(chunks).metadata),
                   Tail(chunks), source)

add_documents(coll, chunks, source) ==
    IF chunks = <<>> THEN coll ELSE UpsertAll(coll, chunks, source)

\* collection.count()
get_doc_count(coll) == Len(coll)

\* source_filter=None, or the empty string, which `if source_filter` treats alike
NoFilter == <<>>

\* the positions of the entries a `where` filter selects
Matching(coll, where) ==
    {i \in DOMAIN coll : where = NoFilter \/ coll[i].metadata.source = where}

RECURSIVE Keep(_, _)
\* the entries of coll at the positions in S, in collection order
Keep(coll, S) ==
    IF coll = <<>> THEN <<>>
    ELSE LET rest == Keep(SubSeq(coll, 1, Len(coll) - 1), S) IN
         IF Len(coll) \in S THEN Append(rest, coll[Len(coll)]) ELSE rest

Reverse(s) == [i \in DOMAIN s |-> s[Len(s) + 1 - i]]

n_resultsMut(top_k, coll) == top_k
\* min(top_k, self._collection.count() or 1)
n_results(top_k, coll) ==
    Min(top_k, IF get_doc_count(coll) = 0 THEN 1 ELSE get_doc_count(coll))

\* a RetrievalHit built from an entry (the rounded similarity 1 - dist is opaque)
Hit(e) == [text |-> e.document, metadata |-> e.metadata]

\* collection.query(n_results=n, where=...): the service rejects n <= 0; asked for
\* more than it holds it raises or returns what it has, depending on its version;
\* otherwise it returns the min(n, matching) nearest entries.  Distances are
\* opaque: any subset of that size can be nearest, ranked in collection order or
\* in reverse.
QueryOutcomes(coll, n, where) ==
    LET M == Matching(coll, where)
        k == Min(n, Cardinality(M))
        ok == UNION {{[raised |-> FALSE, hits |-> [i \in DOMAIN r |-> Hit(r[i])]]
                        : r \in {Keep(coll, S), Reverse(Keep(coll, S))}}
                     : S \in {T \in SUBSET M : Cardinality(T) = k}}
    IN  IF n <= 0 THEN {[raised |-> TRUE, hits |-> <<>>]}
        ELSE IF n > get_doc_count(coll)
             THEN ok \cup {[raised |-> TRUE, hits |-> <<>>]}
             ELSE ok

\* similarity_search: every outcome it can have, with the n_results it passed
similarity_search(coll, top_k, source_filter) ==
    LET n == n_results(top_k, coll) IN
    {[raised |-> o.raised, hits |-> o.hits, n_results |-> n]
        : o \in QueryOutcomes(coll, n, source_filter)}

delete_sourceMut(coll, source) ==
    [coll   |-> Keep(coll, DOMAIN coll \ Matching(coll, source)),
     raised |-> FALSE]
\* delete_source: get(where={"source": source}), then delete(ids) or ValueError
delete_source(coll, source) ==
    LET ids == {coll[i].id : i \in Matching(coll, source)} IN
    IF ids # {}
    THEN [coll   |-> Keep(coll, {i \in DOMAIN coll : coll[i].id \notin ids}),
          raised |-> FALSE]
    ELSE [coll |-> coll, raised |-> TRUE]

\* the number of entries stored for a source
SourceCount(coll, source) == Cardinality(Matching(coll, source))

----------------------------------------------------------------------------
(* Reranker, utils/reranker.py *)

\* what `from sentence_transformers import CrossEncoder; CrossEncoder(...)` can do
LoadOutcomes == {"ok", "ImportError", "Exception"}

_load_modelMut(outcome) ==
    IF outcome = "ok"
    THEN [status |-> "ok", model |-> "loaded", cause |-> outcome]
    ELSE [status |-> "raised", model |-> "None", cause |-> outcome]
\* __init__ with _load_model: ImportError is raised again, any other exception
\* leaves _model None
_load_model(outcome) ==
    CASE outcome = "ok"          -> [status |-> "ok", model |-> "loaded", cause |-> outcome]
      [] outcome = "ImportError" -> [status |-> "raised", model |-> "None", cause |-> outcome]
      [] OTHER                   -> [status |-> "ok", model |-> "None", cause |-> outcome]

\* s[:k] of a Python list, k of either sign
PySlice(s, k) ==
    IF k >= 0 THEN SubSeq(s, 1, Min(k, Len(s)))
    ELSE SubSeq(s, 1, Max(Len(s) + k, 0))

\* round(float(score), 4), scores counted in units of 0.00001 and results in
\* units of 0.0001 (no raw score of the model lies on a rounding boundary)
Round4(x) == (x + 5) \div 10

\* doc["rerank_score"] = ...
WithScore(d, sc) ==
    [text |-> d.text, metadata |-> d.metadata, rerank_score |-> sc]

HasScore(d) == "rerank_score" \in DOMAIN d

\* x put into the descending list s behind every element that is not smaller
InsertDesc(s, x) ==
    LET k == Cardinality({i \in DOMAIN s : s[i].rerank_score >= x.rerank_score})
    IN  SubSeq(s, 1, k) \o <<x>> \o SubSeq(s, k + 1, Len(s))

RECURSIVE SortDesc(_)
\* sorted(documents, key=rerank_score, reverse=True): stable
SortDesc(s) ==
    IF s = <<>> THEN <<>>
    ELSE InsertDesc(SortDesc(SubSeq(s, 1, Len(s) - 1)), s[Len(s)])

\* rerank: the list returned, the caller's documents afterwards (scores are
\* attached in place) and whether the scoring service was called
rerank(model, documents, top_k, raw) ==
    IF documents = <<>>
    THEN [out |-> <<>>, documents |-> documents, invoked |-> FALSE]
    ELSE IF model = "None"
    THEN [out |-> PySlice(documents, top_k), documents |-> documents,
          invoked |-> FALSE]
    ELSE LET scored == [i \in DOMAIN documents |->
                           WithScore(documents[i], Round4(raw[i]))]
         IN  [out |-> PySlice(SortDesc(scored), top_k), documents |-> scored,
              invoked |-> TRUE]

----------------------------------------------------------------------------
(* RAGChain, utils/rag_chain.py.  A string is a sequence of tokens.  The     *)
(* character cuts ([:500], [-max_chars:], [:200], [:150]) shorten a text and *)
(* are not modelled: every modelled text is shorter than the cut.            *)

\* the marker _build_context returns for no documents
NoDocsMarker == <<"No relevant documents found in the knowledge base.">>

\* get_formatted_context: one "Human: ..." or "Assistant: ..." line per turn of
\* the history, joined by newlines; "" without history
FormatLine(t) ==
    <<IF t.role = "user" THEN "Human: " ELSE "Assistant: ">> \o t.content

RECURSIVE JoinWith(_, _)
\* sep.join(parts)
JoinWith(parts, sep) ==
    IF parts = <<>> THEN <<>>
    ELSE IF Len(parts) = 1 THEN parts[1]
    ELSE parts[1] \o sep \o JoinWith(Tail(parts), sep)

get_formatted_context(m, sid) ==
    LET history == get_history(m, sid) IN
    JoinWith([i \in DOMAIN history |-> FormatLine(history[i])], <<"\n">>)

\* get_recent_messages(session_id, n): history[-n:] as role/content dicts
get_recent_messages(m, sid, n) ==
    LET history == get_history(m, sid)
        recent  == LastN(history, n)
    IN  [i \in DOMAIN recent |-> [role |-> recent[i].role,
                                  content |-> recent[i].content]]

\* _build_context: the marker, or "[i] Source: src\ntext" parts joined by a rule
_build_context(documents) ==
    IF documents = <<>> THEN NoDocsMarker
    ELSE JoinWith([i \in DOMAIN documents |->
                      <<"[", Str(i), "] Source: ">> \o documents[i].metadata.source
                        \o <<"\n">> \o documents[i].text],
                  <<"\n\n---\n\n">>)

\* str.lower() of a token
Lower(tok) ==
    CASE tok = "No relevant documents found in the knowledge base."
            -> "no relevant documents found in the knowledge base."
      [] tok = "There is No Relevant precedent."
            -> "there is no relevant precedent."
      [] OTHER -> tok

\* "no relevant" in context.lower(); no two modelled tokens form it together
MentionsNoRelevant(context) ==
    \E i \in DOMAIN context :
        Lower(context[i]) \in {"no relevant documents found in the knowledge base.",
                               "there is no relevant precedent."}

\* context[:400].replace("\n", " ")
Preview(context) ==
    [i \in DOMAIN context |->
        CASE context[i] = "\n" -> " "
          [] context[i] = "\n\n---\n\n" -> "  ---  "
          [] OTHER -> context[i]]

\* the reply of the templated backend's no-context branch
NoContextReply == <<"I couldn't find relevant information in the knowledge base.">>

_mock_response(query, context) ==
    IF MentionsNoRelevant(context)
    THEN NoContextReply
    ELSE <<"[DEMO MODE]">> \o Preview(context) \o <<"...">>

\* what the backend call (chat.completions.create, requests.post) can do
BackendOutcomes == {"ok", "fail"}
LLMText == <<"generated answer">>

\* _call_openai: the call and the unpacking of its result sit in try/except Exception
_call_openai(backend) ==
    IF backend = "ok" THEN [answer |-> LLMText, raised |-> FALSE]
    ELSE [answer |-> <<"LLM error: ", "e">>, raised |-> FALSE]

_call_ollamaMut(backend) ==
    IF backend = "ok" THEN [answer |-> LLMText, raised |-> FALSE]
    ELSE [answer |-> <<>>, raised |-> TRUE]
\* _call_ollama: requests.post and the unpacking sit in try/except Exception
_call_ollama(backend) ==
    IF backend = "ok" THEN [answer |-> LLMText, raised |-> FALSE]
    ELSE [answer |-> <<"Ollama error: ", "e">>, raised |-> FALSE]

\* _init_llm: the provider and whether a client object was built (the openai
\* package may be missing)
LLMConfigs ==
    {[provider |-> "openai", client |-> TRUE],
     [provider |-> "openai", client |-> FALSE],
     [provider |-> "ollama", client |-> FALSE],
     [provider |-> "other",  client |-> FALSE]}

\* whether _generate reaches a backend call at all
CallsBackend(cfg) ==
    \/ cfg.provider = "openai" /\ cfg.client
    \/ cfg.provider = "ollama"

\* _generate: dispatch on the provider
_generate(cfg, query, context, backend) ==
    IF cfg.provider = "openai" /\ cfg.client THEN _call_openai(backend)
    ELSE IF cfg.provider = "ollama" THEN _call_ollama(backend)
    ELSE [answer |-> _mock_response(query, context), raised |-> FALSE]

\* get_recent_messages(session_id, n=6)
RecentN == 6

ChatStepsMut ==
    <<"retrieve", "rerank", "record_user", "context", "generate",
      "record_assistant", "respond">>
ChatStepsRecordFirst ==
    <<"record_user", "retrieve", "rerank", "context", "generate",
      "record_assistant", "respond">>
\* the statements of chat in program order
ChatSteps ==
    <<"retrieve", "rerank", "context", "generate", "record_user",
      "record_assistant", "respond">>

\* the statement that follows statement pc
NextStep(pc) ==
    LET i == CHOOSE k \in DOMAIN ChatSteps : ChatSteps[k] = pc
    IN  ChatSteps[i + 1]

\* the response dict: answer, the set of sources, and per reranked hit its
\* source and scores
Response(answer, reranked) ==
    [answer   |-> answer,
     sources  |-> {reranked[i].metadata.source : i \in DOMAIN reranked},
     context_used |-> [i \in DOMAIN reranked |-> reranked[i].text \o <<"...">>],
     reranked |-> [i \in DOMAIN reranked |->
                      [text |-> reranked[i].text \o <<"...">>,
                       source |-> reranked[i].metadata.source,
                       rerank_score |-> IF HasScore(reranked[i])
                                        THEN reranked[i].rerank_score ELSE -1]]]

----------------------------------------------------------------------------
(* DocumentProcessor, utils/document_processor.py.  A text is a sequence of *)
(* characters.                                                               *)

\* the characters of the modelled texts: a letter, a sentence end, a blank
Chars == {"a", ".", " "}
\* the characters after which re.split(r'(?<=[.!?])\s+') cuts
SentenceEnds == {".", "!", "?"}

\* the index of the first character at or after i that is not a blank
RECURSIVE SkipBlanks(_, _)
SkipBlanks(text, i) ==
    IF i <= Len(text) /\ text[i] = " " THEN SkipBlanks(text, i + 1) ELSE i

\* re.split(r'(?<=[.!?])\s+', text) from character i on, cur being the piece
\* under construction: a run of blanks that directly follows a sentence end
\* is dropped and separates two pieces
RECURSIVE SplitFrom(_, _, _)
SplitFrom(text, i, cur) ==
    IF i > Len(text) THEN <<cur>>
    ELSE IF text[i] = " " /\ i > 1 /\ text[i - 1] \in SentenceEnds
    THEN <<cur>> \o SplitFrom(text, SkipBlanks(text, i), <<>>)
    ELSE SplitFrom(text, i + 1, Append(cur, text[i]))

split_sentences(text) == SplitFrom(text, 1, <<>>)

\* str.strip(): the text without its leading and trailing blanks
RECURSIVE LStrip(_)
LStrip(text) ==
    IF text # <<>> /\ Head(text) = " " THEN LStrip(Tail(text)) ELSE text
RECURSIVE RStrip(_)
RStrip(text) ==
    IF text # <<>> /\ text[Len(text)] = " "
    THEN RStrip(SubSeq(text, 1, Len(text) - 1)) ELSE text
Strip(text) == LStrip(RStrip(text))

\* _clean_text ends with strip(): the texts _split_text is given
IsClean(text) == Strip(text) = text

overlap_textMut(chunk_text, chunk_overlap) ==
    SubSeq(chunk_text, Len(chunk_text) - Min(chunk_overlap, Len(chunk_text)) + 1,
           Len(chunk_text))
\* chunk_text[-chunk_overlap:]: the last chunk_overlap characters, but the
\* whole text for chunk_overlap = 0 (-0 is 0), and the text without its first
\* -chunk_overlap characters for a negative chunk_overlap
overlap_text(chunk_text, chunk_overlap) ==
    LET n     == Len(chunk_text)
        start == IF chunk_overlap > 0 THEN Max(n - chunk_overlap, 0)
                 ELSE Min(-chunk_overlap, n)
    IN  SubSeq(chunk_text, start + 1, n)

\* DocumentChunk(text, metadata) as _split_text builds it
DocumentChunk(chunk_text, source, chunks) ==
    [text |-> chunk_text,
     metadata |-> [source |-> source, chunk_idx |-> Len(chunks),
                   char_count |-> Len(chunk_text)]]

with_chunkMut(chunks, chunk_text, source) ==
    Append(chunks, DocumentChunk(chunk_text, source, chunks))
\* if chunk_text: chunks.append(DocumentChunk(...))
with_chunk(chunks, chunk_text, source) ==
    IF chunk_text # <<>>
    THEN Append(chunks, DocumentChunk(chunk_text, source, chunks))
    ELSE chunks

\* the loop of _split_text over sentences[i..].  st holds the locals chunks,
\* current and curr_len, and two records of what happened: cuts, one entry
\* per closed buffer with the text closed and the text carried over, and
\* firsts, per emitted chunk the sentence that was put first into its
\* buffer (for a chunk opened by a cut, the sentence that triggered the cut)
RECURSIVE SplitLoop(_, _, _, _, _, _)
SplitLoop(sentences, i, st, chunk_size, chunk_overlap, source) ==
    IF i > Len(sentences)
    THEN \* flush
         IF st.current # <<>>
         THEN LET chunk_text == Strip(JoinWith(st.current, <<" ">>))
                  chunks     == with_chunk(st.chunks, chunk_text, source)
              IN  [st EXCEPT !.chunks = chunks,
                             !.firsts = IF Len(chunks) > Len(st.chunks)
                                        THEN Append(@, st.first) ELSE @]
         ELSE st
    ELSE LET sentence == sentences[i]
             s_len    == Len(sentence)
             cut      == st.curr_len + s_len > chunk_size /\ st.current # <<>>
             chunk_text == Strip(JoinWith(st.current, <<" ">>))
             chunks   == with_chunk(st.chunks, chunk_text, source)
             carried  == overlap_text(chunk_text, chunk_overlap)
             st1 == IF cut
                    THEN [chunks   |-> chunks,
                          current  |-> <<carried>>,
                          curr_len |-> Len(carried),
                          cuts     |-> Append(st.cuts,
                                         [closed |-> chunk_text, carried |-> carried,
                                          sentence |-> sentence]),
                          firsts   |-> IF Len(chunks) > Len(st.chunks)
                                       THEN Append(st.firsts, st.first)
                                       ELSE st.firsts,
                          first    |-> sentence]
                    ELSE [st EXCEPT !.first = IF st.current = <<>>
                                              THEN sentence ELSE @]
         IN  SplitLoop(sentences, i + 1,
                       [st1 EXCEPT !.current = Append(@, sentence),
                                   !.curr_len = @ + s_len + 1],
                       chunk_size, chunk_overlap, source)

\* _split_text(text, source) of a processor with the given chunk_size and
\* chunk_overlap
_split_text(text, source, chunk_size, chunk_overlap) ==
    SplitLoop(split_sentences(text), 1,
              [chunks |-> <<>>, current |-> <<>>, curr_len |-> 0,
               cuts |-> <<>>, firsts |-> <<>>, first |-> <<>>],
              chunk_size, chunk_overlap, source)

----------------------------------------------------------------------------
(* RAGEvaluator, utils/evaluator.py.  A text is a sequence of words, written *)
(* with one blank between two words.  A score is a whole number of           *)
(* ten-thousandths: round(x, 4) of the code yields exactly such values.      *)

\* the words of the modelled texts
EvalWords == {"What", "is", "a", "Paris", "capital."}

\* _tokenize: re.findall(r'\b[a-z]{2,}\b', text.lower()) gives, per word, its
\* lower-cased run of two or more letters; the one-letter word gives nothing
NoToken == ""
Token(word) ==
    CASE word = "What"     -> "what"
      [] word = "is"       -> "is"
      [] word = "Paris"    -> "paris"
      [] word = "capital." -> "capital"
      [] OTHER             -> NoToken

_tokenize(text) ==
    LET toks == [i \in DOMAIN text |-> Token(text[i])]
    IN  SelectSeq(toks, LAMBDA tok : tok # NoToken)

\* len(word)
WordLen(word) ==
    CASE word = "What"     -> 4
      [] word = "is"       -> 2
      [] word = "a"        -> 1
      [] word = "Paris"    -> 5
      [] word = "capital." -> 8

\* len(text): the characters of the words and the blanks between them
RECURSIVE CharLen(_)
CharLen(text) ==
    IF text = <<>> THEN 0
    ELSE IF Len(text) = 1 THEN WordLen(text[1])
    ELSE WordLen(text[1]) + 1 + CharLen(Tail(text))

\* " ".join(contexts)
RECURSIVE JoinTexts(_)
JoinTexts(contexts) ==
    IF contexts = <<>> THEN <<>> ELSE Head(contexts) \o JoinTexts(Tail(contexts))

\* _split_sentences: the pieces between the blanks that follow '.', '!', '?'
RECURSIVE SentencesFrom(_, _, _)
SentencesFrom(text, i, cur) ==
    IF i > Len(text) THEN (IF cur = <<>> THEN <<>> ELSE <<cur>>)
    ELSE IF text[i] = "capital."
    THEN <<Append(cur, text[i])>> \o SentencesFrom(text, i + 1, <<>>)
    ELSE SentencesFrom(text, i + 1, Append(cur, text[i]))

_split_sentences(text) == SentencesFrom(text, 1, <<>>)

\* sum(values)
RECURSIVE Sum(_)
Sum(values) == IF values = <<>> THEN 0 ELSE Head(values) + Sum(Tail(values))

\* 1.0 in ten-thousandths
One == 10000

\* round(num / den, 4) in ten-thousandths; with the denominators that occur
\* (below 32) num / den is never halfway between two such values
RoundRatio(num, den) == (2 * One * num + den) \div (2 * den)

\* _faithfulness: the share of answer sentences more than half of whose
\* tokens occur in the joined contexts
_faithfulness(answer, contexts) ==
    IF contexts = <<>> \/ answer = <<>> THEN 0
    ELSE LET sentences  == _split_sentences(answer)
             ctx_tokens == Range(_tokenize(JoinTexts(contexts)))
             supported  ==
                 Cardinality({k \in DOMAIN sentences :
                     LET tokens == Range(_tokenize(sentences[k]))
                     IN  /\ tokens # {}
                         /\ 2 * Cardinality(tokens \cap ctx_tokens)
                               > Cardinality(tokens)})
         IN  IF sentences = <<>> THEN 0
             ELSE RoundRatio(supported, Len(sentences))

\* the stop words _answer_relevancy removes from the question tokens
stopwords ==
    {"what", "is", "the", "a", "an", "of", "in", "to", "how", "does", "do",
     "can", "who", "when", "where", "why", "which"}

_answer_relevancyMut(question, answer) ==
    IF question = <<>> \/ answer = <<>> THEN 0
    ELSE LET q_tokens == Range(_tokenize(question)) \ stopwords
             a_tokens == Range(_tokenize(answer))
             overlap  == Cardinality(q_tokens \cap a_tokens)
         IN  IF q_tokens = {} THEN 0
             ELSE IF CharLen(answer) < 20
             THEN RoundRatio(overlap, 2 * Cardinality(q_tokens))
             ELSE RoundRatio(overlap, Cardinality(q_tokens))

\* _answer_relevancy: 0.0 without a question or an answer; 0.5 when no
\* question token is left; else the share of question tokens found in the
\* answer, halved for an answer of fewer than 20 characters
_answer_relevancy(question, answer) ==
    IF question = <<>> \/ answer = <<>> THEN 0
    ELSE LET q_tokens == Range(_tokenize(question)) \ stopwords
             a_tokens == Range(_tokenize(answer))
             overlap  == Cardinality(q_tokens \cap a_tokens)
         IN  IF q_tokens = {} THEN One \div 2
             ELSE IF CharLen(answer) < 20
             THEN RoundRatio(overlap, 2 * Cardinality(q_tokens))
             ELSE RoundRatio(overlap, Cardinality(q_tokens))

\* _context_precision: the share of contexts that hold more than 0.3 of the
\* question tokens
_context_precision(question, contexts) ==
    IF contexts = <<>> THEN 0
    ELSE LET q_tokens == Range(_tokenize(question))
             relevant ==
                 Cardinality({k \in DOMAIN contexts :
                     10 * Cardinality(q_tokens \cap Range(_tokenize(contexts[k])))
                        > 3 * Cardinality(q_tokens)})
         IN  IF q_tokens = {} THEN One \div 2
             ELSE RoundRatio(relevant, Len(contexts))

\* _context_recall: the share of ground-truth tokens found in the contexts
_context_recall(contexts, ground_truth) ==
    IF ground_truth = <<>> \/ contexts = <<>> THEN 0
    ELSE LET gt_tokens  == Range(_tokenize(ground_truth))
             ctx_tokens == Range(_tokenize(JoinTexts(contexts)))
         IN  IF gt_tokens = {} THEN One \div 2
             ELSE RoundRatio(Cardinality(gt_tokens \cap ctx_tokens),
                             Cardinality(gt_tokens))

\* Counter(tokens)[tok]
Count(tokens, tok) == Cardinality({i \in DOMAIN tokens : tokens[i] = tok})

\* _answer_correctness: the F1 of the token multisets; with common tokens,
\* precision p = common/|a| and recall r = common/|gt| give
\* 2pr/(p + r) = 2 common / (|a| + |gt|)
_answer_correctness(answer, ground_truth) ==
    IF ground_truth = <<>> \/ answer = <<>> THEN 0
    ELSE LET a_tokens  == _tokenize(answer)
             gt_tokens == _tokenize(ground_truth)
             \* sum((a_tokens & gt_tokens).values()): per shared token the
             \* smaller of its two counts
             common    == Cardinality(
                             {p \in (Range(a_tokens) \cap Range(gt_tokens))
                                       \X (1 .. Len(a_tokens)) :
                                 p[2] <= Min(Count(a_tokens, p[1]),
                                             Count(gt_tokens, p[1]))})
         IN  IF common = 0 THEN 0
             ELSE RoundRatio(2 * common, Len(a_tokens) + Len(gt_tokens))

\* Python's None for a score
None == -1

\* ground_truth as evaluate receives it: None, or a text ("" included)
NoGroundTruth == [given |-> FALSE, text |-> <<>>]
GroundTruth(text) == [given |-> TRUE, text |-> text]
\* `if ground_truth`: given and not empty
Truthy(ground_truth) == ground_truth.given /\ ground_truth.text # <<>>

aggregateMut(valid) ==
    IF valid # <<>> THEN Sum(valid) \div Len(valid) ELSE 0
\* round(sum(valid) / len(valid), 4) if valid else 0.0
aggregate(valid) ==
    IF valid # <<>> THEN (2 * Sum(valid) + Len(valid)) \div (2 * Len(valid)) ELSE 0

\* the quality label of an aggregate
quality_label(agg) ==
    IF agg >= 8000 THEN "Excellent"
    ELSE IF agg >= 6000 THEN "Good"
    ELSE IF agg >= 4000 THEN "Fair"
    ELSE "Poor"

\* lines 52-64: the scores dict with its aggregate over the values that are
\* not None, and the label of the aggregate
WithAggregate(keys, values) ==
    LET agg == aggregate(SelectSeq(values, LAMBDA v : v # None))
    IN  [k \in Range(keys) |->
            values[CHOOSE i \in DOMAIN keys : keys[i] = k]]
        @@ ("aggregate" :> agg) @@ ("quality_label" :> quality_label(agg))

\* evaluate: the scores dict; the key answer_correctness exists only with a
\* ground truth
evaluate(question, answer, contexts, ground_truth) ==
    LET with_truth == Truthy(ground_truth)
        keys   == <<"faithfulness", "answer_relevancy", "context_precision",
                    "context_recall">>
                  \o (IF with_truth THEN <<"answer_correctness">> ELSE <<>>)
        values == <<_faithfulness(answer, contexts),
                    _answer_relevancy(question, answer),
                    _context_precision(question, contexts),
                    IF with_truth
                    THEN _context_recall(contexts, ground_truth.text) ELSE None>>
                  \o (IF with_truth
                      THEN <<_answer_correctness(answer, ground_truth.text)>>
                      ELSE <<>>)
    IN  WithAggregate(keys, values)

----------------------------------------------------------------------------
\* rag_chain.py lines 92-95: the reranker is called only with candidates;
\* `called` records the call, `invoked` whether the scoring service ran
rerank_candidatesMut(model, candidates, rerank_top_k, raw) ==
    LET r == rerank(model, candidates, rerank_top_k, raw)
    IN  [reranked |-> r.out, candidates |-> r.documents,
         called |-> TRUE, invoked |-> r.invoked]

rerank_candidates(model, candidates, rerank_top_k, raw) ==
    IF candidates # <<>>
    THEN LET r == rerank(model, candidates, rerank_top_k, raw)
         IN  [reranked |-> r.out, candidates |-> r.documents,
              called |-> TRUE, invoked |-> r.invoked]
    ELSE [reranked |-> <<>>, candidates |-> candidates,
          called |-> FALSE, invoked |-> FALSE]

(* Inert values of the variables a specification does not use *)

IdleThreads == [t \in Threads |-> [pc |-> "idle"]]
ChIdle == [pc |-> "idle", query |-> <<>>, sid |-> "", top_k |-> 0, rerank_top_k |-> 0,
           start |-> <<>>, candidates |-> <<>>, reranked |-> <<>>,
           rerank_called |-> FALSE, scoring_invoked |-> FALSE,
           mem0 |-> <<>>, context_text |-> <<>>, history_text |-> <<>>,
           recent_messages |-> <<>>, backend |-> "", answer |-> <<>>]
IdleChats == [t \in Threads |-> ChIdle]
NoLog       == [s \in SessionIds |-> <<>>]

----------------------------------------------------------------------------
(* SpecMem: one caller of ConversationMemory *)

InitMem ==
    /\ mem = EmptyMemory
    /\ appended = NoLog
    /\ last = NoOp
    /\ wk = IdleThreads
    /\ calls = 0
    /\ collection = <<>>
    /\ rr = [status |-> "unused"]
    /\ ch = IdleChats
    /\ llm = [provider |-> "none"]

MemAddTurn(sid, role, content) ==
    /\ calls < MaxOps
    /\ calls' = calls + 1
    /\ mem' = add_turn(mem, sid, role, content)
    /\ appended' = [appended EXCEPT ![sid] = Append(@, Turn(role, content))]
    /\ last' = [op |-> "add_turn", sid |-> sid, turn |-> Turn(role, content),
                afterClear |-> last.op = "clear" /\ last.sid = sid,
                cleared |-> IF last.op = "clear" /\ last.sid = sid
                            THEN Len(get_history(last.pre, sid)) ELSE 0]
    /\ UNCHANGED <<wk, collection, rr, ch, llm>>

MemClear(sid) ==
    /\ calls < MaxOps
    /\ calls' = calls + 1
    /\ LET r == clear(mem, sid) IN
        /\ mem' = r.mem
        /\ last' = [op |-> "clear", sid |-> sid, raised |-> r.raised,
                    known |-> HasSession(mem, sid), pre |-> mem]
    /\ appended' = [appended EXCEPT ![sid] = <<>>]
    /\ UNCHANGED <<wk, collection, rr, ch, llm>>

MemGetHistory(sid) ==
    /\ calls < MaxOps
    /\ calls' = calls + 1
    /\ last' = [op |-> "get_history", sid |-> sid, result |-> get_history(mem, sid)]
    /\ UNCHANGED <<mem, appended, wk, collection, rr, ch, llm>>

NextMem ==
    \/ \E sid \in SessionIds, role \in Roles, content \in Contents :
          MemAddTurn(sid, role, content)
    \/ \E sid \in SessionIds : MemClear(sid)
    \/ \E sid \in SessionIds : MemGetHistory(sid)

SpecMem == InitMem /\ [][NextMem]_vars

----------------------------------------------------------------------------
(* SpecConc: threads inside add_turn.  The interpreter switches threads     *)
(* between bytecodes: the membership test, the store of the new deque, the  *)
(* subscript that fetches the deque and the call of its append are separate *)
(* steps (the turn's dict, with datetime.now(), is built between the last   *)
(* two).                                                                    *)

Held(w) == {w[t].ref : t \in {u \in Threads : w[u].pc = "append"}}

ConcCall(t, sid, role, content) ==
    /\ wk[t].pc = "idle"
    /\ calls < MaxCalls
    /\ calls' = calls + 1
    /\ wk' = [wk EXCEPT ![t] = [pc |-> "check", sid |-> sid,
                                turn |-> Turn(role, content)]]
    /\ UNCHANGED <<mem, appended, last, collection, rr, ch, llm>>

\* line 35: if session_id not in self._sessions
ConcCheck(t) ==
    /\ wk[t].pc = "check"
    /\ wk' = [wk EXCEPT ![t].pc = IF HasSession(mem, wk[t].sid)
                                  THEN "lookup" ELSE "create"]
    /\ UNCHANGED <<mem, appended, last, calls, collection, rr, ch, llm>>

\* line 36: self._sessions[session_id] = deque(...)
ConcCreate(t) ==
    /\ wk[t].pc = "create"
    /\ mem' = Collect(CreateSession(mem, wk[t].sid), Held(wk))
    /\ wk' = [wk EXCEPT ![t].pc = "lookup"]
    /\ UNCHANGED <<appended, last, calls, collection, rr, ch, llm>>

\* line 38: the subscript self._sessions[session_id]
ConcLookup(t) ==
    /\ wk[t].pc = "lookup"
    /\ wk' = [wk EXCEPT ![t] = [pc |-> "append", sid |-> wk[t].sid,
                                turn |-> wk[t].turn,
                                ref |-> mem.sessions[wk[t].sid]]]
    /\ UNCHANGED <<mem, appended, last, calls, collection, rr, ch, llm>>

\* lines 38-42: .append({...}) on the deque fetched
ConcAppend(t) ==
    /\ wk[t].pc = "append"
    /\ wk' = [wk EXCEPT ![t] = [pc |-> "idle"]]
    /\ mem' = Collect(AppendRef(mem, wk[t].ref, wk[t].turn), Held(wk'))
    /\ appended' = [appended EXCEPT ![wk[t].sid] = Append(@, wk[t].turn)]
    /\ last' = [op |-> "add_turn", sid |-> wk[t].sid, turn |-> wk[t].turn]
    /\ UNCHANGED <<calls, collection, rr, ch, llm>>

NextConc ==
    \/ \E t \in Threads, sid \in SessionIds, role \in Roles, content \in Contents :
          ConcCall(t, sid, role, content)
    \/ \E t \in Threads : ConcCheck(t)
    \/ \E t \in Threads : ConcCreate(t)
    \/ \E t \in Threads : ConcLookup(t)
    \/ \E t \in Threads : ConcAppend(t)

SpecConc == InitMem /\ [][NextConc]_vars

Quiescent == \A t \in Threads : wk[t].pc = "idle"

----------------------------------------------------------------------------
(* SpecIndex: one caller of VectorStore (the upload, delete and search paths) *)

TopKs == {0, 1, 2, 5}
Filters == {NoFilter} \cup Sources

IndexIngest(source, n, ver) ==
    /\ calls < MaxIndexOps
    /\ calls' = calls + 1
    /\ collection' = add_documents(collection, ChunkList(source, n, ver), source)
    /\ last' = [op |-> "add_documents", source |-> source, n |-> n,
                before |-> SourceCount(collection, source), pre |-> collection]
    /\ UNCHANGED <<mem, appended, wk, rr, ch, llm>>

IndexDelete(source) ==
    /\ calls < MaxIndexOps
    /\ calls' = calls + 1
    /\ LET r == delete_source(collection, source) IN
        /\ collection' = r.coll
        /\ last' = [op |-> "delete_source", source |-> source,
                    raised |-> r.raised, pre |-> collection]
    /\ UNCHANGED <<mem, appended, wk, rr, ch, llm>>

IndexSearch(top_k, where) ==
    /\ calls < MaxIndexOps
    /\ calls' = calls + 1
    /\ \E r \in similarity_search(collection, top_k, where) :
          last' = [op |-> "similarity_search", top_k |-> top_k, where |-> where,
                   n_results |-> r.n_results, raised |-> r.raised, hits |-> r.hits]
    /\ UNCHANGED <<mem, appended, wk, collection, rr, ch, llm>>

NextIndex ==
    \/ \E source \in Sources, n \in 0 .. MaxChunks, ver \in Versions :
          IndexIngest(source, n, ver)
    \/ \E source \in Sources : IndexDelete(source)
    \/ \E top_k \in TopKs, where \in Filters : IndexSearch(top_k, where)

SpecIndex == InitMem /\ [][NextIndex]_vars

----------------------------------------------------------------------------
(* Claims about VectorStore *)

NoDuplicateIds(coll) ==
    \A i, j \in DOMAIN coll : coll[i].id = coll[j].id => i = j

\* C3: after a source that is already stored is ingested again with n >= 1 chunks,
\* no identifier is stored twice and the source has exactly n entries.
C3_ReingestReflectsLatest ==
    (last.op = "add_documents" /\ last.before > 0 /\ last.n > 0) =>
        /\ NoDuplicateIds(collection)
        /\ SourceCount(collection, last.source) = last.n

\* C4: delete_source of a stored source removes all of its entries and nothing
\* else; of a source that is not stored it raises and changes nothing.
C4_DeleteSource ==
    last.op = "delete_source" =>
        IF SourceCount(last.pre, last.source) > 0
        THEN /\ ~last.raised
             /\ SourceCount(collection, last.source) = 0
             /\ collection = Keep(last.pre, {i \in DOMAIN last.pre :
                                   last.pre[i].metadata.source # last.source})
        ELSE /\ last.raised
             /\ collection = last.pre

\* C4 witness: a source was deleted while another source's entries stayed
C4_Witness ==
    /\ last.op = "delete_source"
    /\ ~last.raised
    /\ Len(collection) > 0
    /\ Len(last.pre) > Len(collection)

\* C5 as stated: an unfiltered search with top_k above count() asks the service for
\* no more than the index holds, does not raise and returns all count() entries;
\* any search returns at most min(top_k, count()) hits.
C5_ClampedToIndexSize ==
    last.op = "similarity_search" =>
        /\ (last.where = NoFilter /\ last.top_k > get_doc_count(collection)) =>
              /\ last.n_results <= get_doc_count(collection)
              /\ ~last.raised
              /\ Len(last.hits) = get_doc_count(collection)
        /\ Len(last.hits) <= Min(last.top_k, get_doc_count(collection))

\* C5 amended: an unfiltered search with top_k above count() asks the service for
\* count() results when the index is not empty, and then does not raise and
\* returns all count() entries; on an empty index it asks for 1 result.  Any
\* search that returns has at most min(top_k, count()) hits.
C5_ClampedWhenNonEmpty ==
    last.op = "similarity_search" =>
        /\ (last.where = NoFilter /\ last.top_k > get_doc_count(collection)) =>
              IF get_doc_count(collection) > 0
              THEN /\ last.n_results = get_doc_count(collection)
                   /\ ~last.raised
                   /\ Len(last.hits) = get_doc_count(collection)
              ELSE last.n_results = 1
        /\ ~last.raised => Len(last.hits) <= Min(last.top_k, get_doc_count(collection))

\* C5 witness: a search asked for more than a non-empty index holds and got it all
C5_Witness ==
    /\ last.op = "similarity_search"
    /\ last.where = NoFilter
    /\ get_doc_count(collection) >= 2
    /\ last.top_k > get_doc_count(collection)
    /\ Len(last.hits) = get_doc_count(collection)

----------------------------------------------------------------------------
(* SpecRerank: a Reranker is constructed, then used *)

\* hits as similarity_search returns them
HitPool == [i \in 1 .. MaxDocs |-> Hit([document |-> <<"v1", Str(i - 1)>>,
                 metadata |-> [source |-> <<"a">>, chunk_idx |-> i - 1]])]
\* the lists handed to rerank: the first n hits of the pool (which hit gets which
\* score is free, so every arrangement of scores over positions occurs)
DocLists == {SubSeq(HitPool, 1, n) : n \in 0 .. MaxDocs}
\* raw scores of the service, in units of 0.00001: 6 and 10 round to the same score
RawScores == {4, 6, 10, 20}
\* rerank_top_k is int(data.get("rerank_top_k", 3)): any integer the client sends
TopNs == {-1, 0, 1, 2, 5}

InitRerank ==
    /\ mem = EmptyMemory
    /\ appended = NoLog
    /\ last = NoOp
    /\ wk = IdleThreads
    /\ calls = 0
    /\ collection = <<>>
    /\ rr = [status |-> "unconstructed"]
    /\ ch = IdleChats
    /\ llm = [provider |-> "none"]

RerankConstruct(outcome) ==
    /\ rr.status = "unconstructed"
    /\ rr' = _load_model(outcome)
    /\ UNCHANGED <<mem, appended, last, wk, calls, collection, ch, llm>>

RerankCall(documents, top_k, raw) ==
    /\ rr.status = "ok"
    /\ LET r == rerank(rr.model, documents, top_k, raw) IN
          last' = [op |-> "rerank", documents |-> documents, top_k |-> top_k,
                   out |-> r.out, after |-> r.documents, invoked |-> r.invoked]
    /\ UNCHANGED <<mem, appended, wk, calls, collection, rr, ch, llm>>

NextRerank ==
    \/ \E outcome \in LoadOutcomes : RerankConstruct(outcome)
    \/ \E documents \in DocLists, top_k \in TopNs :
          \E raw \in [DOMAIN documents -> RawScores] :
              RerankCall(documents, top_k, raw)

SpecRerank == InitRerank /\ [][NextRerank]_vars

----------------------------------------------------------------------------
(* Claims about Reranker *)

\* the hit without the score rerank attached to it
Plain(d) == [text |-> d.text, metadata |-> d.metadata]

\* the first n hits of the input, as they were passed
FirstN(documents, n) == SubSeq(documents, 1, Min(n, Len(documents)))

\* all but the last n hits of the input, as they were passed
DropLastN(documents, n) == SubSeq(documents, 1, Max(Len(documents) - n, 0))

PassThrough ==
    last.op = "rerank" =>
        /\ last.top_k >= 0 => last.out = FirstN(last.documents, last.top_k)
        /\ last.top_k < 0 => last.out = DropLastN(last.documents, 0 - last.top_k)
        /\ \A i \in DOMAIN last.out : ~HasScore(last.out[i])
        /\ last.after = last.documents
        /\ ~last.invoked

\* C8 as stated: whatever made the cross-encoder unavailable at initialization,
\* the constructor does not fail and rerank returns the first top_n hits, in input
\* order, unchanged and without a rerank_score.
C8_FallbackWhateverReason ==
    (rr.status # "unconstructed" /\ rr.cause # "ok") =>
        /\ rr.status = "ok"
        /\ (last.op = "rerank" /\ last.top_k >= 0) => PassThrough

\* C8 amended: when loading the cross-encoder fails with anything but an
\* ImportError, the constructor does not fail and every later rerank returns
\* documents[:top_n] (the first top_n hits for top_n >= 0, all but the last
\* |top_n| for top_n < 0), in input order, unchanged and without a rerank_score,
\* never calling the service; an ImportError is raised again by the constructor.
C8_FallbackUnlessImportError ==
    /\ (rr.status # "unconstructed" /\ rr.cause = "Exception") =>
          /\ rr.status = "ok"
          /\ PassThrough
    /\ (rr.status # "unconstructed" /\ rr.cause = "ImportError") =>
          rr.status = "raised"

\* C8 witness: a reranker whose model failed to load passed three hits through
C8_Witness ==
    /\ rr.status = "ok"
    /\ rr.cause = "Exception"
    /\ last.op = "rerank"
    /\ Len(last.documents) = 3
    /\ last.top_k = 2
    /\ Len(last.out) = 2

\* C9: for every top_n, rerank returns at most min(top_n, len(input)) hits (none
\* when that is negative), each an input hit, and with the scoring service active
\* they are the top_n highest-scored inputs in descending rerank_score order.
C9_RerankContract ==
    last.op = "rerank" =>
        /\ Len(last.out) <= Max(0, Min(last.top_k, Len(last.documents)))
        /\ \A i \in DOMAIN last.out : Plain(last.out[i]) \in Range(last.documents)
        /\ \A i, j \in DOMAIN last.out : last.out[i] = last.out[j] => i = j
        /\ last.invoked =>
              /\ \A i \in DOMAIN last.out : last.out[i] \in Range(last.after)
              /\ \A i, j \in DOMAIN last.out :
                    i < j => last.out[i].rerank_score >= last.out[j].rerank_score
              /\ \A d \in Range(last.after) \ Range(last.out) :
                    \A i \in DOMAIN last.out :
                        last.out[i].rerank_score >= d.rerank_score

----------------------------------------------------------------------------
(* SpecChat: requests through RAGChain.chat, one at a time *)

ChatThreads  == {"t1"}
ChatSessions == {"s1"}
Queries      == {<<"q1">>, <<"q2">>}
ChatTopKs    == {0, 5}
ChatTopNs    == {1, 3}
ChatRawScores == {4, 20}

\* the index the chats run against: empty, or one ingested two-chunk document
\* one of whose chunks mentions "No Relevant"
ChatIndexes ==
    {<<>>,
     add_documents(<<>>,
        [i \in 1 .. 2 |->
            [text |-> IF i = 1 THEN <<"There is No Relevant precedent.">>
                      ELSE <<"v1", Str(i - 1)>>,
             metadata |-> [source |-> <<"a">>, chunk_idx |-> i - 1]]],
        <<"a">>)}

InitChat ==
    /\ mem = EmptyMemory
    /\ appended = NoLog
    /\ last = NoOp
    /\ wk = IdleThreads
    /\ calls = 0
    /\ collection \in ChatIndexes
    /\ rr \in {_load_model("ok"), _load_model("Exception")}
    /\ ch = IdleChats
    /\ llm \in LLMConfigs

ChatCall(t, query, sid, top_k, rerank_top_k) ==
    /\ \A u \in Threads : ch[u].pc = "idle"
    /\ calls < MaxChats
    /\ calls' = calls + 1
    /\ ch' = [ch EXCEPT ![t] = [ChIdle EXCEPT !.pc = ChatSteps[1],
                                   !.query = query, !.sid = sid, !.top_k = top_k,
                                   !.rerank_top_k = rerank_top_k,
                                   !.start = get_history(mem, sid),
                                   !.mem0 = mem]]
    /\ UNCHANGED <<mem, appended, last, wk, collection, rr, llm>>

\* line 88: similarity_search; an exception leaves chat
ChatRetrieve(t) ==
    /\ ch[t].pc = "retrieve"
    /\ \E r \in similarity_search(collection, ch[t].top_k, NoFilter) :
          IF r.raised
          THEN /\ ch' = [ch EXCEPT ![t] = ChIdle]
               /\ last' = [op |-> "chat", status |-> "raised", at |-> "retrieve",
                           sid |-> ch[t].sid, start |-> ch[t].start,
                           mem0 |-> ch[t].mem0]
          ELSE /\ ch' = [ch EXCEPT ![t].candidates = r.hits,
                                   ![t].pc = NextStep("retrieve")]
               /\ UNCHANGED last
    /\ UNCHANGED <<mem, appended, wk, calls, collection, rr, llm>>

\* lines 92-95: rerank only a non-empty candidate list
ChatRerank(t) ==
    /\ ch[t].pc = "rerank"
    /\ \E raw \in [DOMAIN ch[t].candidates -> ChatRawScores] :
          LET r == rerank_candidates(rr.model, ch[t].candidates,
                                     ch[t].rerank_top_k, raw)
          IN  ch' = [ch EXCEPT ![t].reranked = r.reranked,
                               ![t].candidates = r.candidates,
                               ![t].rerank_called = r.called,
                               ![t].scoring_invoked = r.invoked,
                               ![t].pc = NextStep("rerank")]
    /\ UNCHANGED <<mem, appended, last, wk, calls, collection, rr, llm>>

\* lines 98-100: context, formatted history, recent messages
ChatContext(t) ==
    /\ ch[t].pc = "context"
    /\ ch' = [ch EXCEPT
                ![t].context_text = _build_context(ch[t].reranked),
                ![t].history_text = get_formatted_context(mem, ch[t].sid),
                ![t].recent_messages = get_recent_messages(mem, ch[t].sid, RecentN),
                ![t].pc = NextStep("context")]
    /\ UNCHANGED <<mem, appended, last, wk, calls, collection, rr, llm>>

\* lines 103-108: _generate
ChatGenerate(t) ==
    /\ ch[t].pc = "generate"
    /\ \E backend \in IF CallsBackend(llm) THEN BackendOutcomes ELSE {"unused"} :
          LET r == _generate(llm, ch[t].query, ch[t].context_text, backend) IN
          IF r.raised
          THEN /\ ch' = [ch EXCEPT ![t] = ChIdle]
               /\ last' = [op |-> "chat", status |-> "raised", at |-> "generate",
                           sid |-> ch[t].sid, start |-> ch[t].start,
                           mem0 |-> ch[t].mem0]
          ELSE /\ ch' = [ch EXCEPT ![t].answer = r.answer,
                                   ![t].backend = backend,
                                   ![t].pc = NextStep("generate")]
               /\ UNCHANGED last
    /\ UNCHANGED <<mem, appended, wk, calls, collection, rr, llm>>

\* line 111: add_turn(session_id, "user", query)
ChatRecordUser(t) ==
    /\ ch[t].pc = "record_user"
    /\ mem' = add_turn(mem, ch[t].sid, "user", ch[t].query)
    /\ appended' = [appended EXCEPT ![ch[t].sid] =
                       Append(@, Turn("user", ch[t].query))]
    /\ ch' = [ch EXCEPT ![t].pc = NextStep("record_user")]
    /\ UNCHANGED <<last, wk, calls, collection, rr, llm>>

\* line 112: add_turn(session_id, "assistant", answer)
ChatRecordAssistant(t) ==
    /\ ch[t].pc = "record_assistant"
    /\ mem' = add_turn(mem, ch[t].sid, "assistant", ch[t].answer)
    /\ appended' = [appended EXCEPT ![ch[t].sid] =
                       Append(@, Turn("assistant", ch[t].answer))]
    /\ ch' = [ch EXCEPT ![t].pc = NextStep("record_assistant")]
    /\ UNCHANGED <<last, wk, calls, collection, rr, llm>>

\* lines 115-133: the response is built and returned
ChatRespond(t) ==
    /\ ch[t].pc = "respond"
    /\ last' = [op |-> "chat", status |-> "returned", sid |-> ch[t].sid,
                query |-> ch[t].query, start |-> ch[t].start,
                history_text |-> ch[t].history_text,
                recent_messages |-> ch[t].recent_messages,
                context_text |-> ch[t].context_text,
                candidates |-> Len(ch[t].candidates),
                rerank_called |-> ch[t].rerank_called,
                scoring_invoked |-> ch[t].scoring_invoked,
                reranked |-> ch[t].reranked,
                backend |-> ch[t].backend,
                response |-> Response(ch[t].answer, ch[t].reranked)]
    /\ ch' = [ch EXCEPT ![t] = ChIdle]
    /\ UNCHANGED <<mem, appended, wk, calls, collection, rr, llm>>

NextChat ==
    \/ \E t \in ChatThreads, query \in Queries, sid \in ChatSessions,
          top_k \in ChatTopKs, rerank_top_k \in ChatTopNs :
          ChatCall(t, query, sid, top_k, rerank_top_k)
    \/ \E t \in ChatThreads : ChatRetrieve(t)
    \/ \E t \in ChatThreads : ChatRerank(t)
    \/ \E t \in ChatThreads : ChatContext(t)
    \/ \E t \in ChatThreads : ChatGenerate(t)
    \/ \E t \in ChatThreads : ChatRecordUser(t)
    \/ \E t \in ChatThreads : ChatRecordAssistant(t)
    \/ \E t \in ChatThreads : ChatRespond(t)

SpecChat == InitChat /\ [][NextChat]_vars

----------------------------------------------------------------------------
(* RAGChain.chat called from several request threads at once (app.run serves *)
(* each request on its own thread and chat takes no lock): the statements of *)
(* the calls interleave.  Each add_turn is taken as one step here.           *)

ConcTopKs   == {5}
ConcTopNs   == {1}

InitChatConc ==
    /\ mem = EmptyMemory
    /\ appended = NoLog
    /\ last = NoOp
    /\ wk = IdleThreads
    /\ calls = 0
    /\ collection \in ChatIndexes
    /\ rr = _load_model("Exception")
    /\ ch = IdleChats
    /\ llm \in {cfg \in LLMConfigs : cfg.provider # "openai"}

\* a request thread enters chat while another may be inside it
ChatCallConc(t, query, sid, top_k, rerank_top_k) ==
    /\ ch[t].pc = "idle"
    /\ calls < MaxChats
    /\ calls' = calls + 1
    /\ ch' = [ch EXCEPT ![t] = [ChIdle EXCEPT !.pc = ChatSteps[1],
                                   !.query = query, !.sid = sid, !.top_k = top_k,
                                   !.rerank_top_k = rerank_top_k,
                                   !.start = get_history(mem, sid),
                                   !.mem0 = mem]]
    /\ UNCHANGED <<mem, appended, last, wk, collection, rr, llm>>

NextChatConc ==
    \/ \E t \in Threads, query \in Queries, sid \in ChatSessions,
          top_k \in ConcTopKs, rerank_top_k \in ConcTopNs :
          ChatCallConc(t, query, sid, top_k, rerank_top_k)
    \/ \E t \in Threads : ChatRetrieve(t)
    \/ \E t \in Threads : ChatRerank(t)
    \/ \E t \in Threads : ChatContext(t)
    \/ \E t \in Threads : ChatGenerate(t)
    \/ \E t \in Threads : ChatRecordUser(t)
    \/ \E t \in Threads : ChatRecordAssistant(t)
    \/ \E t \in Threads : ChatRespond(t)

SpecChatConc == InitChatConc /\ [][NextChatConc]_vars

----------------------------------------------------------------------------
(* DocumentProcessor._split_text on every clean text of up to MaxTextLen     *)
(* characters, for processors of several chunk sizes and overlaps            *)

RECURSIVE TextsOfLen(_)
TextsOfLen(n) ==
    IF n = 0 THEN {<<>>}
    ELSE {Append(t, c) : t \in TextsOfLen(n - 1), c \in Chars}

Texts == {t \in UNION {TextsOfLen(n) : n \in 0 .. MaxTextLen} : IsClean(t)}
ChunkSizes    == {2, 4}
ChunkOverlaps == {0, 1, 3}

\* DocumentProcessor(chunk_size, chunk_overlap)
InitSplit ==
    /\ mem = EmptyMemory
    /\ appended = NoLog
    /\ \E chunk_size \in ChunkSizes, chunk_overlap \in ChunkOverlaps :
          last = [op |-> "DocumentProcessor", chunk_size |-> chunk_size,
                  chunk_overlap |-> chunk_overlap]
    /\ wk = IdleThreads
    /\ calls = 0
    /\ collection = <<>>
    /\ rr = _load_model("Exception")
    /\ ch = IdleChats
    /\ llm = [provider |-> "other", client |-> FALSE]

\* _split_text(text, source)
SplitText(text, source) ==
    /\ last.op = "DocumentProcessor"
    /\ LET r == _split_text(text, source, last.chunk_size, last.chunk_overlap)
       IN  last' = [op |-> "_split_text", chunk_size |-> last.chunk_size,
                    chunk_overlap |-> last.chunk_overlap,
                    text |-> text, source |-> source,
                    chunks |-> r.chunks, cuts |-> r.cuts, firsts |-> r.firsts]
    /\ UNCHANGED <<mem, appended, wk, calls, collection, rr, ch, llm>>

NextSplit == \E text \in Texts, source \in Sources : SplitText(text, source)

SpecSplit == InitSplit /\ [][NextSplit]_vars

----------------------------------------------------------------------------
(* RAGEvaluator.evaluate on answers of up to MaxAnswerWords words, with a    *)
(* few questions, context lists and ground truths                            *)

RECURSIVE WordSeqs(_)
WordSeqs(n) ==
    IF n = 0 THEN {<<>>}
    ELSE {Append(t, w) : t \in WordSeqs(n - 1), w \in EvalWords}

Answers   == UNION {WordSeqs(n) : n \in 0 .. MaxAnswerWords}
Questions == {<<>>, <<"a">>, <<"What", "is">>, <<"What", "is", "a">>,
              <<"What", "is", "Paris">>, <<"Paris", "capital.">>}
ContextLists ==
    {<<>>, <<<<>>>>, <<<<"Paris", "is", "a", "capital.">>>>,
     <<<<"What">>, <<"Paris">>, <<"a", "capital.">>>>}
GroundTruths ==
    {NoGroundTruth, GroundTruth(<<>>), GroundTruth(<<"a">>),
     GroundTruth(<<"Paris">>), GroundTruth(<<"a", "capital.", "is", "Paris">>)}

\* RAGEvaluator(), and the question, contexts and ground truth of the request
\* to evaluate (app.py lines 152-157)
InitEval ==
    /\ mem = EmptyMemory
    /\ appended = NoLog
    /\ \E question \in Questions, contexts \in ContextLists,
          ground_truth \in GroundTruths :
          last = [op |-> "request", question |-> question,
                  contexts |-> contexts, ground_truth |-> ground_truth]
    /\ wk = IdleThreads
    /\ calls = 0
    /\ collection = <<>>
    /\ rr = _load_model("Exception")
    /\ ch = IdleChats
    /\ llm = [provider |-> "other", client |-> FALSE]

\* evaluate(question, answer, contexts, ground_truth)
Evaluate(answer) ==
    /\ last.op = "request"
    /\ last' = [op |-> "evaluate", question |-> last.question, answer |-> answer,
                contexts |-> last.contexts, ground_truth |-> last.ground_truth,
                scores |-> evaluate(last.question, answer, last.contexts,
                                    last.ground_truth)]
    /\ UNCHANGED <<mem, appended, wk, calls, collection, rr, ch, llm>>

NextEval == \E answer \in Answers : Evaluate(answer)

SpecEval == InitEval /\ [][NextEval]_vars

----------------------------------------------------------------------------
(* Claims about RAGChain.chat *)

\* chat has just returned or raised: `last` describes it and nothing ran since
ChatEnded(status) ==
    /\ last.op = "chat"
    /\ last.status = status
    /\ \A t \in Threads : ch[t].pc = "idle"

\* the statements of chat that come before the first add_turn
BeforeRecording == {"retrieve", "rerank", "context", "generate"}

\* C6: chat reads the formatted history and the recent turns before it records
\* the current query (while it retrieves, reranks, builds the context and
\* generates, the session is as it was at the call, and what generation is given
\* is rendered from that), and when it returns the session's two newest turns
\* are the user query and then the assistant answer.
C6_RecordAfterGenerate ==
    /\ \A t \in Threads :
          /\ ch[t].pc \in BeforeRecording =>
                get_history(mem, ch[t].sid) = ch[t].start
          /\ ch[t].pc \in {"generate", "record_user", "record_assistant", "respond"} =>
                /\ ch[t].history_text =
                      JoinWith([i \in DOMAIN ch[t].start |->
                                   FormatLine(ch[t].start[i])], <<"\n">>)
                /\ ch[t].recent_messages = LastN(ch[t].start, RecentN)
    /\ ChatEnded("returned") =>
          LET h == get_history(mem, last.sid) IN
          /\ Len(h) >= 2
          /\ h[Len(h) - 1] = Turn("user", last.query)
          /\ h[Len(h)] = Turn("assistant", last.response.answer)
          /\ h = LastN(last.start \o <<Turn("user", last.query),
                                       Turn("assistant", last.response.answer)>>,
                       2 * max_turns)

\* C6 witness: a second chat in a session returned, having shown generation the
\* first exchange
C6_Witness ==
    /\ ChatEnded("returned")
    /\ Len(last.start) = 2
    /\ Len(last.recent_messages) = 2
    /\ last.start[1].content # last.query

\* C7: with every backend variant, a failing generation call does not leave chat
\* as an exception: chat goes on to record and return, and the answer is the
\* in-band error text; a chat that ends in an exception ended in retrieval.
C7_GenerationFailureInBand ==
    /\ \A t \in Threads :
          ch[t].backend = "fail" =>
              /\ ch[t].pc \in {"record_user", "record_assistant", "respond"}
              /\ ch[t].answer \in {<<"LLM error: ", "e">>, <<"Ollama error: ", "e">>}
    /\ (last.op = "chat" /\ last.status = "raised") => last.at = "retrieve"
    /\ (ChatEnded("returned") /\ last.backend = "fail") =>
          /\ last.response.answer \in {<<"LLM error: ", "e">>, <<"Ollama error: ", "e">>}
          /\ get_history(mem, last.sid)[Len(get_history(mem, last.sid))]
                = Turn("assistant", last.response.answer)

\* C7 witness: a chat whose Ollama call failed returned the error text as answer
C7_Witness ==
    /\ ChatEnded("returned")
    /\ last.backend = "fail"
    /\ llm.provider = "ollama"
    /\ last.response.answer = <<"Ollama error: ", "e">>

----------------------------------------------------------------------------
(* Claims about ConversationMemory *)

\* C1: after every add_turn a session holds at most 2 * max_turns turns, and they
\* are exactly the most recently appended min(n, 2 * max_turns) turns, in append order.
C1_SlidingWindow ==
    \A s \in SessionIds :
        LET h == get_history(mem, s)
            n == Len(appended[s])
        IN  /\ Len(h) <= 2 * max_turns
            /\ h = LastN(appended[s], Min(n, 2 * max_turns))

\* C1 witness: a session received more than 2 * max_turns appends, so the oldest was evicted
C1_Witness ==
    \E s \in SessionIds :
        /\ Len(appended[s]) > 2 * max_turns
        /\ Len(get_history(mem, s)) = 2 * max_turns

\* C2: once concurrent add_turn calls have all finished, every session's history is
\* within the bound and holds exactly the latest turns that took effect, in the
\* order they took effect (no appended turn is lost).
C2_NoTurnLost ==
    Quiescent =>
        \A s \in SessionIds :
            LET h == get_history(mem, s) IN
            /\ Len(h) <= 2 * max_turns
            /\ h = LastN(appended[s], Min(Len(appended[s]), 2 * max_turns))

\* C10: clear removes the session entirely (history empty as for a never-seen
\* session, the session no longer exists, other sessions untouched), never raises,
\* is a no-op on an unknown session, and the next add_turn starts a fresh session
\* holding only the new turn.
C10_ClearRemovesSession ==
    /\ last.op = "clear" =>
          /\ ~last.raised
          /\ ~HasSession(mem, last.sid)
          /\ get_history(mem, last.sid) = get_history(EmptyMemory, last.sid)
          /\ session_count(mem) =
                session_count(last.pre) - (IF last.known THEN 1 ELSE 0)
          /\ \A s \in SessionIds \ {last.sid} :
                /\ HasSession(mem, s) = HasSession(last.pre, s)
                /\ get_history(mem, s) = get_history(last.pre, s)
          /\ (~last.known => mem = last.pre)
    /\ (last.op = "add_turn" /\ last.afterClear) =>
          get_history(mem, last.sid) = <<last.turn>>

\* C10 witness: a session that held turns was cleared and then appended to
C10_Witness ==
    /\ last.op = "add_turn"
    /\ last.afterClear
    /\ last.cleared > 0
    /\ session_count(mem) = 2

----------------------------------------------------------------------------
(* Claims about the retrieval, rerank and context steps of RAGChain.chat *)

\* the statements of chat after the rerank step, and after the context step
AfterRerank  == {"context", "generate", "record_user", "record_assistant", "respond"}
AfterContext == AfterRerank \ {"context"}

\* C11: when retrieval returns zero candidates, chat does not call the reranker
\* and the scoring service does not run, the re-ranked list is empty and the
\* assembled context is the no-relevant-documents marker; the reranker itself,
\* given zero hits, returns the empty list without the scoring service,
\* whatever its model and top_k.
C11_NoCandidatesNoRerank ==
    /\ \A t \in Threads :
          (ch[t].pc \in AfterRerank /\ ch[t].candidates = <<>>) =>
             /\ ~ch[t].rerank_called
             /\ ~ch[t].scoring_invoked
             /\ ch[t].reranked = <<>>
             /\ ch[t].pc \in AfterContext => ch[t].context_text = NoDocsMarker
    /\ (ChatEnded("returned") /\ last.candidates = 0) =>
             /\ ~last.rerank_called
             /\ last.reranked = <<>>
             /\ last.context_text = NoDocsMarker
    /\ \A model \in {"None", rr.model}, top_k \in ChatTopNs \cup {0, -1} :
          LET r == rerank(model, <<>>, top_k, <<>>)
          IN  r.out = <<>> /\ ~r.invoked

\* C11 witness: a chat returned whose retrieval found nothing, with a loaded
\* scoring model at hand
C11_Witness ==
    /\ ChatEnded("returned")
    /\ last.candidates = 0
    /\ last.context_text = NoDocsMarker
    /\ rr.model # "None"

\* C12: the templated backend takes the no-context branch exactly when the
\* assembled context is the no-relevant-documents marker, which is exactly when
\* no re-ranked passage remains; with at least one passage in the context,
\* whatever its text, it takes the context-preview branch.
C12_MockBranchIffMarker ==
    \A t \in Threads :
       (~CallsBackend(llm) /\ ch[t].pc \in {"record_user", "record_assistant", "respond"}) =>
          /\ (ch[t].context_text = NoDocsMarker) <=> (ch[t].reranked = <<>>)
          /\ (ch[t].answer = NoContextReply) <=> (ch[t].context_text = NoDocsMarker)

\* C18: when the index query fails inside chat, chat raises and the
\* ConversationMemory is as it was at the call: no session was created and no
\* turn was appended for the failed request.
C18_RetrievalFailureLeavesMemory ==
    /\ (ChatEnded("raised") /\ last.at = "retrieve") =>
          /\ mem = last.mem0
          /\ get_history(mem, last.sid) = last.start
    /\ \A t \in Threads : ch[t].pc = "retrieve" => mem = ch[t].mem0

\* C18 witness: the index query of a chat for a session that never existed has
\* failed
C18_Witness ==
    /\ ChatEnded("raised")
    /\ last.at = "retrieve"
    /\ ~HasSession(last.mem0, last.sid)
    /\ ~HasSession(mem, last.sid)

----------------------------------------------------------------------------
(* Claims about concurrent RAGChain.chat calls *)

\* the roles of a sequence of turns go user, assistant, user, assistant, ...
PairedRoles(turns) ==
    \A i \in DOMAIN turns :
        turns[i].role = IF i % 2 = 1 THEN "user" ELSE "assistant"

\* C19: with chat calls running concurrently for one session, in every
\* interleaving the user turn and the assistant turn a call records are added
\* one right after the other (no turn of another call between them), so the
\* turns added to a session, and the history once no call is running, are a
\* sequence of user/assistant pairs.
C19_TurnsOfOneCallAdjacent ==
    \A sid \in ChatSessions :
       /\ PairedRoles(appended[sid])
       /\ (\A t \in Threads : ch[t].pc = "idle") => PairedRoles(get_history(mem, sid))

----------------------------------------------------------------------------
(* Claims about DocumentProcessor._split_text *)

\* _split_text has run
SplitDone == last.op = "_split_text"

\* C13: for every chunk_size, every chunk_overlap >= 0 (0 included) and every
\* text, the text carried over from a closed chunk into the buffer of the next
\* chunk is at most chunk_overlap characters long.
C13_CarryOverAtMostOverlap ==
    SplitDone =>
       \A k \in DOMAIN last.cuts : Len(last.cuts[k].carried) <= last.chunk_overlap

\* C14: every emitted chunk's char_count exceeds chunk_size by no more than
\* the length of the one sentence that triggered the cut opening the chunk
\* (for the first chunk, the sentence that opened the buffer).
C14_ChunkSizeBound ==
    SplitDone =>
       \A k \in DOMAIN last.chunks :
          last.chunks[k].metadata.char_count
             <= last.chunk_size + Len(last.firsts[k])

\* C15: the chunk_idx values of the chunks of one _split_text call are
\* 0, 1, ..., n-1 in emission order, so (source, chunk_idx) is unique within
\* the call, and no emitted chunk has an empty or blank-only text.
C15_IndexesContiguousNoEmptyChunk ==
    SplitDone =>
       /\ \A k \in DOMAIN last.chunks :
             /\ last.chunks[k].metadata.chunk_idx = k - 1
             /\ last.chunks[k].metadata.source = last.source
             /\ Strip(last.chunks[k].text) # <<>>
       /\ \A k, l \in DOMAIN last.chunks :
             (last.chunks[k].metadata.chunk_idx = last.chunks[l].metadata.chunk_idx)
                => k = l

\* C15 witness: a text was cut into at least two chunks
C15_Witness ==
    /\ SplitDone
    /\ Len(last.chunks) >= 2
    /\ last.chunks[2].metadata.chunk_idx = 1

----------------------------------------------------------------------------
(* Claims about RAGEvaluator *)

\* evaluate has run
EvalDone == last.op = "evaluate"

\* the metrics of the scores dict
MetricKeys ==
    <<"faithfulness", "answer_relevancy", "context_precision", "context_recall",
      "answer_correctness">>

\* a metric is null: its key is missing or holds None
IsNull(scores, key) == key \notin DOMAIN scores \/ scores[key] = None

\* how many metric scores are not null, and their total
NonNullCount(scores) ==
    Cardinality({k \in DOMAIN MetricKeys : ~IsNull(scores, MetricKeys[k])})
NonNullTotal(scores) ==
    Sum([k \in DOMAIN MetricKeys |->
            IF IsNull(scores, MetricKeys[k]) THEN 0 ELSE scores[MetricKeys[k]]])

\* the aggregate lies in [0,1], context recall and answer correctness are null
\* without a ground truth, and the label follows the thresholds 0.8, 0.6, 0.4
RangeNullsAndLabel(scores) ==
    /\ 0 <= scores.aggregate /\ scores.aggregate <= One
    /\ ~last.ground_truth.given =>
          /\ IsNull(scores, "context_recall")
          /\ IsNull(scores, "answer_correctness")
    /\ scores.quality_label = "Excellent" <=> scores.aggregate >= 8000
    /\ scores.quality_label = "Good" <=>
          (6000 <= scores.aggregate /\ scores.aggregate < 8000)
    /\ scores.quality_label = "Fair" <=>
          (4000 <= scores.aggregate /\ scores.aggregate < 6000)
    /\ scores.quality_label = "Poor" <=> scores.aggregate < 4000

\* C16 as stated: for every input, with or without ground truth, the
\* aggregate equals the arithmetic mean of the non-null metric scores (0.0 if
\* there is none), it lies in [0,1], context recall and answer correctness are
\* null without a ground truth, and the label is Excellent iff aggregate >=
\* 0.8, Good iff 0.6 <= aggregate < 0.8, Fair iff 0.4 <= aggregate < 0.6, Poor
\* otherwise.
C16_AggregateIsExactMean ==
    EvalDone =>
       /\ IF NonNullCount(last.scores) = 0 THEN last.scores.aggregate = 0
          ELSE last.scores.aggregate * NonNullCount(last.scores)
                  = NonNullTotal(last.scores)
       /\ RangeNullsAndLabel(last.scores)

\* C16 amended: the aggregate is the arithmetic mean of the non-null metric
\* scores rounded to four decimal places (it differs from the mean by at most
\* half a ten-thousandth); range, nulls and label as stated.
C16_AggregateIsRoundedMean ==
    EvalDone =>
       /\ IF NonNullCount(last.scores) = 0 THEN last.scores.aggregate = 0
          ELSE LET d == last.scores.aggregate * NonNullCount(last.scores)
                          - NonNullTotal(last.scores)
               IN  /\ 2 * d <= NonNullCount(last.scores)
                   /\ -2 * d <= NonNullCount(last.scores)
       /\ RangeNullsAndLabel(last.scores)

\* C16 witness: an evaluation with a ground truth whose five scores have a
\* mean that is not a whole number of ten-thousandths, labelled Good
C16_Witness ==
    /\ EvalDone
    /\ NonNullCount(last.scores) = 5
    /\ NonNullTotal(last.scores) % 5 # 0
    /\ last.scores.quality_label = "Good"

\* the question holds only stop words and words that yield no token, so its
\* stop-word-filtered token set is empty
OnlyStopWords(question) ==
    \A i \in DOMAIN question : question[i] \in {"What", "is", "a"}

\* C17 as stated: for every question whose stop-word-filtered token set is
\* empty (the empty question and a question of stop words included) and every
\* answer, the answer relevancy score is 0.5.
C17_NoQueryTokensHalf ==
    (EvalDone /\ OnlyStopWords(last.question)) =>
       last.scores.answer_relevancy = 5000

\* C17 amended: for every non-empty question whose stop-word-filtered token
\* set is empty and every non-empty answer, however short, the answer
\* relevancy score is 0.5; for an empty question or an empty answer it is 0.0.
C17_NoQueryTokensHalfUnlessEmpty ==
    (EvalDone /\ OnlyStopWords(last.question)) =>
       last.scores.answer_relevancy =
          IF last.question = <<>> \/ last.answer = <<>> THEN 0 ELSE 5000

\* C17 witness: a question of stop words with a short non-empty answer scored
\* 0.5
C17_Witness ==
    /\ EvalDone
    /\ last.question = <<"What", "is">>
    /\ last.answer = <<"Paris">>
    /\ last.scores.answer_relevancy = 5000

====
